---- MODULE Spec2Model ----
(***************************************************************************)
(* Model of src/src/serialimage.rs: SerialImageBuffer<T>, the channel-     *)
(* separated image buffer, its constructors (from_vec, new for u8, u16 and *)
(* f32, and the conversions from the image crate's buffers), into_vec,     *)
(* the accessors, the mutable views, the metadata slot and the conversions *)
(* to the image crate's ImageBuffer and DynamicImage.                      *)
(*                                                                         *)
(* Option<X> is modelled as a sequence of at most one element: None is     *)
(* <<>> and Some(x) is <<x>>.  A Vec<T> is a sequence of samples.  usize   *)
(* arithmetic is WordBits wide and wraps.                                  *)
(***************************************************************************)
EXTENDS Integers, Sequences, FiniteSets, TLC

VARIABLES pc, call, res, buf, out, nops, seen, conv, last, dimg

vars == <<pc, call, res, buf, out, nops, seen, conv, last, dimg>>

---------------------------------------------------------------------------
(* Bounds of the model *)

\* width and height are drawn from 0..MaxDim
MaxDim == 2
\* longest flat vector handed to from_vec
MaxFlatLen == 9
\* longest channel vector handed to new
MaxChanLen == 2
\* width of the modelled usize
WordBits == 5
\* operations made on one buffer between its construction and its consumption
MaxOps == 1
\* samples an image crate buffer may hold beyond width * height * channels
MaxSlack == 1

\* the sample values; the code never inspects a sample
Samples == {0, 1}
\* the sample kinds T of SerialImageBuffer<T>
Kinds == {"u8", "u16", "f32"}
\* the values of ImageMetaData that matter here
MetaRecords == {"meta_a"}
\* the records written into the metadata slot after construction
WrittenMetas == {"meta_b"}

Dims == 0..MaxDim
UsizeModulus == 2 ^ WordBits

---------------------------------------------------------------------------
(* Option and usize helpers *)

None == <<>>
Some(x) == <<x>>
IsSome(o) == Len(o) = 1
Unwrap(o) == o[1]

\* usize multiplication
Mul(a, b) == (a * b) % UsizeModulus

---------------------------------------------------------------------------
(* The error messages of the constructors *)

ErrZeroDim == "Width and height must be greater than zero"
ErrDataLen == "Data length must be equal to width * height * pixel elements"
ErrPixelElems == "Invalid number of pixel elements"
ErrColors == "All color channels must be specified."
ErrLumaColor == "Luma and color channels cannot be specified at the same time"
ErrLumaLen == "Length of luma channel must be equal to width * height"
ErrRedLen == "Length of red channel must be equal to width * height"
ErrGreenLen == "Length of green channel must be equal to width * height"
ErrBlueLen == "Length of blue channel must be equal to width * height"
ErrAlphaLen == "Length of alpha channel must be equal to width * height"

\* Result<Self, &'static str>, and a panic of the call
Ok(v) == [tag |-> "Ok", err |-> "", val |-> Some(v)]
Err(msg) == [tag |-> "Err", err |-> msg, val |-> None]
Panicked == [tag |-> "Panic", err |-> "", val |-> None]

\* the value of a call that returns a Vec<T>, or its panic
VecOk(v) == [panic |-> FALSE, vec |-> v]
VecPanic == [panic |-> TRUE, vec |-> <<>>]

---------------------------------------------------------------------------
(* from_vec_unsafe *)

\* Gather with the flat vector read plane by plane: data[j * size + i]
Gather_planar(data, size, elems, j) ==
    [i \in 1..size |-> data[j * size + (i - 1) + 1]]

\* the vector the loop `for i in 0..size { v.push(data[i * elems + j]) }` builds
Gather(data, size, elems, j) ==
    [i \in 1..size |-> data[(i - 1) * elems + j + 1]]

\* the loop indexes data up to (size - 1) * elems + elems - 1
GatherInRange(data, size, elems) ==
    size = 0 \/ (size - 1) * elems + elems - 1 < Len(data)

Channels(luma, red, green, blue, alpha) ==
    [panic |-> FALSE, luma |-> luma, red |-> red, green |-> green,
     blue |-> blue, alpha |-> alpha]

ChannelsPanic ==
    [panic |-> TRUE, luma |-> None, red |-> None, green |-> None,
     blue |-> None, alpha |-> None]

\* from_vec_unsafe with the two-element case returning its second vector in
\* the second slot of the tuple (red) instead of the last (alpha)
from_vec_unsafe_slot(size, data, elems) ==
    IF elems = 1 THEN
        Channels(Some(data), None, None, None, None)
    ELSE IF elems = 2 THEN
        IF ~GatherInRange(data, size, 2) THEN ChannelsPanic
        ELSE Channels(Some(Gather(data, size, 2, 0)),
                      Some(Gather(data, size, 2, 1)), None, None, None)
    ELSE IF elems = 3 THEN
        IF ~GatherInRange(data, size, 3) THEN ChannelsPanic
        ELSE Channels(None, Some(Gather(data, size, 3, 0)),
                      Some(Gather(data, size, 3, 1)),
                      Some(Gather(data, size, 3, 2)), None)
    ELSE IF elems = 4 THEN
        IF ~GatherInRange(data, size, 4) THEN ChannelsPanic
        ELSE Channels(None, Some(Gather(data, size, 4, 0)),
                      Some(Gather(data, size, 4, 1)),
                      Some(Gather(data, size, 4, 2)),
                      Some(Gather(data, size, 4, 3)))
    ELSE ChannelsPanic

from_vec_unsafe(size, data, elems) ==
    IF elems = 1 THEN
        Channels(Some(data), None, None, None, None)
    ELSE IF elems = 2 THEN
        IF ~GatherInRange(data, size, 2) THEN ChannelsPanic
        ELSE Channels(Some(Gather(data, size, 2, 0)), None, None, None,
                      Some(Gather(data, size, 2, 1)))
    ELSE IF elems = 3 THEN
        IF ~GatherInRange(data, size, 3) THEN ChannelsPanic
        ELSE Channels(None, Some(Gather(data, size, 3, 0)),
                      Some(Gather(data, size, 3, 1)),
                      Some(Gather(data, size, 3, 2)), None)
    ELSE IF elems = 4 THEN
        IF ~GatherInRange(data, size, 4) THEN ChannelsPanic
        ELSE Channels(None, Some(Gather(data, size, 4, 0)),
                      Some(Gather(data, size, 4, 1)),
                      Some(Gather(data, size, 4, 2)),
                      Some(Gather(data, size, 4, 3)))
    ELSE ChannelsPanic

---------------------------------------------------------------------------
(* SerialImageBuffer<T> and from_vec *)

SerialImageBuffer(T, meta, luma, red, green, blue, alpha, pixel_elems, width, height) ==
    [T |-> T, meta |-> meta, luma |-> luma, red |-> red, green |-> green,
     blue |-> blue, alpha |-> alpha, pixel_elems |-> pixel_elems,
     width |-> width, height |-> height]

\* from_vec with the element-count range test made before the length test
from_vec_range_first(T, width, height, data) ==
    IF Mul(width, height) = 0 THEN Err(ErrZeroDim)
    ELSE LET pixel_elems == Len(data) \div Mul(width, height) IN
         IF pixel_elems > 4 \/ pixel_elems = 0 THEN
             Err(ErrPixelElems)
         ELSE IF Len(data) # Mul(Mul(width, height), pixel_elems) THEN
             Err(ErrDataLen)
         ELSE LET c == from_vec_unsafe(Mul(width, height), data, pixel_elems)
              IN  IF c.panic THEN Panicked
                  ELSE Ok(SerialImageBuffer(T, None, c.luma, c.red, c.green,
                                            c.blue, c.alpha, pixel_elems,
                                            width, height))

from_vec(T, width, height, data) ==
    IF Mul(width, height) = 0 THEN Err(ErrZeroDim)
    ELSE LET pixel_elems == Len(data) \div Mul(width, height) IN
         IF Len(data) # Mul(Mul(width, height), pixel_elems) THEN
             Err(ErrDataLen)
         ELSE IF pixel_elems > 4 \/ pixel_elems = 0 THEN
             Err(ErrPixelElems)
         ELSE LET c == from_vec_unsafe(Mul(width, height), data, pixel_elems)
              IN  IF c.panic THEN Panicked
                  ELSE Ok(SerialImageBuffer(T, None, c.luma, c.red, c.green,
                                            c.blue, c.alpha, pixel_elems,
                                            width, height))

---------------------------------------------------------------------------
(* into_vec *)

\* Interleave with the channels appended one after the other
Interleave_planar(chans, n) ==
    LET e == Len(chans) IN
    IF \E c \in 1..e : Len(chans[c]) < n THEN VecPanic
    ELSE VecOk([k \in 1..(n * e) |->
                    chans[((k - 1) \div n) + 1][((k - 1) % n) + 1]])

\* the vector the loop `for i in 0..n { data.push(c1[i]); data.push(c2[i]); .. }`
\* builds from the channels chans = <<c1, c2, ..>>; indexing past the end of a
\* channel panics
Interleave(chans, n) ==
    LET e == Len(chans) IN
    IF \E c \in 1..e : Len(chans[c]) < n THEN VecPanic
    ELSE VecOk([k \in 1..(n * e) |->
                    chans[((k - 1) % e) + 1][((k - 1) \div e) + 1]])

\* into_vec with the three-element case pushing blue, green, red
into_vec_bgr(self) ==
    LET n == Mul(self.width, self.height) IN
    IF n = 0 THEN VecOk(<<>>)
    ELSE IF self.pixel_elems = 1 THEN
        IF IsSome(self.luma) THEN VecOk(Unwrap(self.luma)) ELSE VecPanic
    ELSE IF self.pixel_elems = 2 THEN
        IF ~IsSome(self.luma) \/ ~IsSome(self.alpha) THEN VecPanic
        ELSE Interleave(<<Unwrap(self.luma), Unwrap(self.alpha)>>, n)
    ELSE IF self.pixel_elems = 3 THEN
        IF ~IsSome(self.red) \/ ~IsSome(self.green) \/ ~IsSome(self.blue)
        THEN VecPanic
        ELSE Interleave(<<Unwrap(self.blue), Unwrap(self.green),
                          Unwrap(self.red)>>, n)
    ELSE IF self.pixel_elems = 4 THEN
        IF ~IsSome(self.red) \/ ~IsSome(self.green) \/ ~IsSome(self.blue)
           \/ ~IsSome(self.alpha)
        THEN VecPanic
        ELSE Interleave(<<Unwrap(self.red), Unwrap(self.green),
                          Unwrap(self.blue), Unwrap(self.alpha)>>, n)
    ELSE VecPanic

into_vec(self) ==
    LET n == Mul(self.width, self.height) IN
    IF n = 0 THEN VecOk(<<>>)
    ELSE IF self.pixel_elems = 1 THEN
        IF IsSome(self.luma) THEN VecOk(Unwrap(self.luma)) ELSE VecPanic
    ELSE IF self.pixel_elems = 2 THEN
        IF ~IsSome(self.luma) \/ ~IsSome(self.alpha) THEN VecPanic
        ELSE Interleave(<<Unwrap(self.luma), Unwrap(self.alpha)>>, n)
    ELSE IF self.pixel_elems = 3 THEN
        IF ~IsSome(self.red) \/ ~IsSome(self.green) \/ ~IsSome(self.blue)
        THEN VecPanic
        ELSE Interleave(<<Unwrap(self.red), Unwrap(self.green),
                          Unwrap(self.blue)>>, n)
    ELSE IF self.pixel_elems = 4 THEN
        IF ~IsSome(self.red) \/ ~IsSome(self.green) \/ ~IsSome(self.blue)
           \/ ~IsSome(self.alpha)
        THEN VecPanic
        ELSE Interleave(<<Unwrap(self.red), Unwrap(self.green),
                          Unwrap(self.blue), Unwrap(self.alpha)>>, n)
    ELSE VecPanic

---------------------------------------------------------------------------
(* SerialImageBuffer<u8>::new, SerialImageBuffer<u16>::new,                *)
(* SerialImageBuffer<f32>::new                                             *)

B2N(b) == IF b THEN 1 ELSE 0

\* new for u8 with the zero-size test made after the channel-combination
\* tests
new_u8_dims_late(meta, luma, red, green, blue, alpha, width, height) ==
    LET colors == B2N(IsSome(red)) + B2N(IsSome(green)) + B2N(IsSome(blue)) IN
    IF colors > 0 /\ colors # 3 THEN Err(ErrColors)
    ELSE IF IsSome(luma) /\ colors > 0 THEN Err(ErrLumaColor)
    ELSE IF Mul(width, height) = 0 THEN Err(ErrZeroDim)
    ELSE IF IsSome(luma) /\ Len(Unwrap(luma)) # Mul(width, height) THEN
        Err(ErrLumaLen)
    ELSE IF IsSome(red) /\ Len(Unwrap(red)) # Mul(width, height) THEN
        Err(ErrRedLen)
    ELSE IF IsSome(green) /\ Len(Unwrap(green)) # Mul(width, height) THEN
        Err(ErrGreenLen)
    ELSE IF IsSome(blue) /\ Len(Unwrap(blue)) # Mul(width, height) THEN
        Err(ErrBlueLen)
    ELSE IF IsSome(alpha) /\ Len(Unwrap(alpha)) # Mul(width, height) THEN
        Err(ErrAlphaLen)
    ELSE LET pixel_elems == colors + B2N(IsSome(luma)) + B2N(IsSome(alpha))
         IN  Ok(SerialImageBuffer("u8", meta, luma, red, green, blue, alpha,
                                  pixel_elems, width, height))

\* new for u8 without the test that luma and the colors exclude each other
new_u8_no_exclusion(meta, luma, red, green, blue, alpha, width, height) ==
    LET colors == B2N(IsSome(red)) + B2N(IsSome(green)) + B2N(IsSome(blue)) IN
    IF Mul(width, height) = 0 THEN Err(ErrZeroDim)
    ELSE IF colors > 0 /\ colors # 3 THEN Err(ErrColors)
    ELSE IF IsSome(luma) /\ Len(Unwrap(luma)) # Mul(width, height) THEN
        Err(ErrLumaLen)
    ELSE IF IsSome(red) /\ Len(Unwrap(red)) # Mul(width, height) THEN
        Err(ErrRedLen)
    ELSE IF IsSome(green) /\ Len(Unwrap(green)) # Mul(width, height) THEN
        Err(ErrGreenLen)
    ELSE IF IsSome(blue) /\ Len(Unwrap(blue)) # Mul(width, height) THEN
        Err(ErrBlueLen)
    ELSE IF IsSome(alpha) /\ Len(Unwrap(alpha)) # Mul(width, height) THEN
        Err(ErrAlphaLen)
    ELSE LET pixel_elems == colors + B2N(IsSome(luma)) + B2N(IsSome(alpha))
         IN  Ok(SerialImageBuffer("u8", meta, luma, red, green, blue, alpha,
                                  pixel_elems, width, height))

new_u8(meta, luma, red, green, blue, alpha, width, height) ==
    LET colors == B2N(IsSome(red)) + B2N(IsSome(green)) + B2N(IsSome(blue)) IN
    IF Mul(width, height) = 0 THEN Err(ErrZeroDim)
    ELSE IF colors > 0 /\ colors # 3 THEN Err(ErrColors)
    ELSE IF IsSome(luma) /\ colors > 0 THEN Err(ErrLumaColor)
    ELSE IF IsSome(luma) /\ Len(Unwrap(luma)) # Mul(width, height) THEN
        Err(ErrLumaLen)
    ELSE IF IsSome(red) /\ Len(Unwrap(red)) # Mul(width, height) THEN
        Err(ErrRedLen)
    ELSE IF IsSome(green) /\ Len(Unwrap(green)) # Mul(width, height) THEN
        Err(ErrGreenLen)
    ELSE IF IsSome(blue) /\ Len(Unwrap(blue)) # Mul(width, height) THEN
        Err(ErrBlueLen)
    ELSE IF IsSome(alpha) /\ Len(Unwrap(alpha)) # Mul(width, height) THEN
        Err(ErrAlphaLen)
    ELSE LET pixel_elems == colors + B2N(IsSome(luma)) + B2N(IsSome(alpha))
         IN  Ok(SerialImageBuffer("u8", meta, luma, red, green, blue, alpha,
                                  pixel_elems, width, height))

\* new for u16 with the channel lengths tested before the channel
\* combination
new_u16_lengths_first(meta, luma, red, green, blue, alpha, width, height) ==
    LET colors == B2N(IsSome(red)) + B2N(IsSome(green)) + B2N(IsSome(blue)) IN
    IF Mul(width, height) = 0 THEN Err(ErrZeroDim)
    ELSE IF IsSome(luma) /\ Len(Unwrap(luma)) # Mul(width, height) THEN
        Err(ErrLumaLen)
    ELSE IF IsSome(red) /\ Len(Unwrap(red)) # Mul(width, height) THEN
        Err(ErrRedLen)
    ELSE IF IsSome(green) /\ Len(Unwrap(green)) # Mul(width, height) THEN
        Err(ErrGreenLen)
    ELSE IF IsSome(blue) /\ Len(Unwrap(blue)) # Mul(width, height) THEN
        Err(ErrBlueLen)
    ELSE IF IsSome(alpha) /\ Len(Unwrap(alpha)) # Mul(width, height) THEN
        Err(ErrAlphaLen)
    ELSE IF colors > 0 /\ colors # 3 THEN Err(ErrColors)
    ELSE IF IsSome(luma) /\ colors > 0 THEN Err(ErrLumaColor)
    ELSE LET pixel_elems == colors + B2N(IsSome(luma)) + B2N(IsSome(alpha))
         IN  Ok(SerialImageBuffer("u16", meta, luma, red, green, blue, alpha,
                                  pixel_elems, width, height))

new_u16(meta, luma, red, green, blue, alpha, width, height) ==
    LET colors == B2N(IsSome(red)) + B2N(IsSome(green)) + B2N(IsSome(blue)) IN
    IF Mul(width, height) = 0 THEN Err(ErrZeroDim)
    ELSE IF colors > 0 /\ colors # 3 THEN Err(ErrColors)
    ELSE IF IsSome(luma) /\ colors > 0 THEN Err(ErrLumaColor)
    ELSE IF IsSome(luma) /\ Len(Unwrap(luma)) # Mul(width, height) THEN
        Err(ErrLumaLen)
    ELSE IF IsSome(red) /\ Len(Unwrap(red)) # Mul(width, height) THEN
        Err(ErrRedLen)
    ELSE IF IsSome(green) /\ Len(Unwrap(green)) # Mul(width, height) THEN
        Err(ErrGreenLen)
    ELSE IF IsSome(blue) /\ Len(Unwrap(blue)) # Mul(width, height) THEN
        Err(ErrBlueLen)
    ELSE IF IsSome(alpha) /\ Len(Unwrap(alpha)) # Mul(width, height) THEN
        Err(ErrAlphaLen)
    ELSE LET pixel_elems == colors + B2N(IsSome(luma)) + B2N(IsSome(alpha))
         IN  Ok(SerialImageBuffer("u16", meta, luma, red, green, blue, alpha,
                                  pixel_elems, width, height))

\* new for f32 with the two element counts exchanged
new_f32_elems_swapped(meta, red, green, blue, alpha, width, height) ==
    IF Mul(width, height) = 0 THEN Err(ErrZeroDim)
    ELSE IF Len(red) # Mul(width, height) THEN Err(ErrRedLen)
    ELSE IF Len(green) # Mul(width, height) THEN Err(ErrGreenLen)
    ELSE IF Len(blue) # Mul(width, height) THEN Err(ErrBlueLen)
    ELSE IF IsSome(alpha) /\ Len(Unwrap(alpha)) # Mul(width, height) THEN
        Err(ErrAlphaLen)
    ELSE LET elems == IF IsSome(alpha) THEN 3 ELSE 4
         IN  Ok(SerialImageBuffer("f32", meta, None, Some(red), Some(green),
                                  Some(blue), alpha, elems, width, height))

\* new for f32 without the length test of the alpha channel
new_f32_alpha_unchecked(meta, red, green, blue, alpha, width, height) ==
    IF Mul(width, height) = 0 THEN Err(ErrZeroDim)
    ELSE IF Len(red) # Mul(width, height) THEN Err(ErrRedLen)
    ELSE IF Len(green) # Mul(width, height) THEN Err(ErrGreenLen)
    ELSE IF Len(blue) # Mul(width, height) THEN Err(ErrBlueLen)
    ELSE LET elems == IF IsSome(alpha) THEN 4 ELSE 3
         IN  Ok(SerialImageBuffer("f32", meta, None, Some(red), Some(green),
                                  Some(blue), alpha, elems, width, height))

new_f32(meta, red, green, blue, alpha, width, height) ==
    IF Mul(width, height) = 0 THEN Err(ErrZeroDim)
    ELSE IF Len(red) # Mul(width, height) THEN Err(ErrRedLen)
    ELSE IF Len(green) # Mul(width, height) THEN Err(ErrGreenLen)
    ELSE IF Len(blue) # Mul(width, height) THEN Err(ErrBlueLen)
    ELSE IF IsSome(alpha) /\ Len(Unwrap(alpha)) # Mul(width, height) THEN
        Err(ErrAlphaLen)
    ELSE LET elems == IF IsSome(alpha) THEN 4 ELSE 3
         IN  Ok(SerialImageBuffer("f32", meta, None, Some(red), Some(green),
                                  Some(blue), alpha, elems, width, height))

---------------------------------------------------------------------------
(* The accessors, the metadata slot and the mutable channel views          *)

get_metadata(self) == self.meta
get_luma(self) == self.luma
get_red(self) == self.red
get_green(self) == self.green
get_blue(self) == self.blue
get_alpha(self) == self.alpha
\* width(), height() and pixel_elems()
width_of(self) == self.width
height_of(self) == self.height
pixel_elems_of(self) == self.pixel_elems
is_luma(self) == self.pixel_elems = 1
is_rgb(self) == self.pixel_elems = 3

\* what one round of accessor calls returns
Observed(self) ==
    [get_metadata |-> get_metadata(self), get_luma |-> get_luma(self),
     get_red |-> get_red(self), get_green |-> get_green(self),
     get_blue |-> get_blue(self), get_alpha |-> get_alpha(self),
     width |-> width_of(self), height |-> height_of(self),
     pixel_elems |-> pixel_elems_of(self), is_luma |-> is_luma(self),
     is_rgb |-> is_rgb(self)]

\* set_metadata that leaves the record in place when it is given none
set_metadata_some_only(self, meta) ==
    IF IsSome(meta) THEN [self EXCEPT !.meta = meta] ELSE self

set_metadata(self, meta) == [self EXCEPT !.meta = meta]

\* get_mut_metadata hands out the record in the slot, if there is one
get_mut_metadata(self) == self.meta

\* a view that makes an empty channel where there is none
get_mut_alpha_or_insert(self) ==
    IF IsSome(self.alpha) THEN self.alpha ELSE Some(<<>>)

\* the mutable views hand out the channel's Vec<T> itself, if there is one
get_mut_luma(self) == self.luma
get_mut_red(self) == self.red
get_mut_green(self) == self.green
get_mut_blue(self) == self.blue
get_mut_alpha(self) == self.alpha

\* the vectors one call on a &mut Vec<T> can leave behind: v[i] = x with
\* another sample in the first or the last place, v.push(x) and v.pop()
VecEdits(v) ==
    {[v EXCEPT ![i] = 1 - v[i]] : i \in {1, Len(v)} \cap (1..Len(v))}
        \cup {Append(v, 0)}
        \cup {SubSeq(v, 1, Len(v) - 1) : k \in {1} \cap (0..Len(v))}

---------------------------------------------------------------------------
(* The image crate's ImageBuffer<P, Vec<T>> and DynamicImage, and the      *)
(* conversions from them                                                   *)

ErrImageType == "Image type not supported"
ErrOneElem == "Image must have one element per pixel"
ErrTwoElems == "Image must have two elements per pixel"
ErrThreeElems == "Image must have three elements per pixel"
ErrNonZeroDims == "Image must have non-zero dimensions"
ErrImageBuffer == "Failed to convert to image buffer"

\* the pixel types the single-type conversions are written for
HostPixels == {"Luma", "LumaA", "Rgb"}

\* the variants of DynamicImage, as <<pixel type, sample type>>
DynamicVariants ==
    ({"Luma", "LumaA", "Rgb", "Rgba"} \X {"u8", "u16"})
        \cup ({"Rgb", "Rgba"} \X {"f32"})

\* ColorType::channel_count, and the channel count of a pixel type
channel_count(pixel) ==
    IF pixel = "Luma" THEN 1 ELSE IF pixel = "LumaA" THEN 2
    ELSE IF pixel = "Rgb" THEN 3 ELSE 4

\* an image of the crate: its pixel and sample types, its dimensions and
\* its container, which into_raw and as_raw hand out whole
ImageBuffer(pixel, T, width, height, raw) ==
    [pixel |-> pixel, T |-> T, width |-> width, height |-> height,
     raw |-> raw]

\* ImageBuffer::from_raw accepts every container that holds at least
\* width * height * channels samples
from_raw(pixel, T, width, height, container) ==
    IF width * height * channel_count(pixel) <= Len(container)
    THEN Some(ImageBuffer(pixel, T, width, height, container))
    ELSE None

\* From<ImageBuffer<Luma<T>>>, From<ImageBuffer<LumaA<T>>> and
\* From<ImageBuffer<Rgb<T>>>, consuming and borrowing
from_image_buffer(img) ==
    LET width == img.width
        height == img.height
        pixel_elems == channel_count(img.pixel)
        data == img.raw
        ch == from_vec_unsafe(Mul(width, height), data, pixel_elems)
    IN  IF ch.panic THEN Panicked
        ELSE Ok(SerialImageBuffer(img.T, None, ch.luma, ch.red, ch.green,
                                  ch.blue, ch.alpha, pixel_elems, width,
                                  height))

\* TryFrom<DynamicImage> with every variant stored as the Luma one is
try_from_dynamic_raw(T, image) ==
    IF image.T # T THEN Err(ErrImageType)
    ELSE Ok(SerialImageBuffer(T, None, Some(image.raw), None, None, None,
                              None, channel_count(image.pixel), image.width,
                              image.height))

\* TryFrom<DynamicImage> for SerialImageBuffer<T>, consuming and borrowing:
\* the u8 and u16 conversions match the four variants of their sample type,
\* the f32 conversion Rgb32F and Rgba32F
try_from_dynamic(T, image) ==
    LET width == image.width
        height == image.height
        pixel_elems == channel_count(image.pixel)
        ch == from_vec_unsafe(Mul(width, height), image.raw, pixel_elems)
    IN  IF image.T # T \/ (T = "f32" /\ image.pixel \notin {"Rgb", "Rgba"})
        THEN Err(ErrImageType)
        ELSE IF image.pixel = "Luma"
        THEN Ok(SerialImageBuffer(T, None, Some(image.raw), None, None, None,
                                  None, pixel_elems, width, height))
        ELSE IF ch.panic THEN Panicked
        ELSE Ok(SerialImageBuffer(T, None, ch.luma, ch.red, ch.green,
                                  ch.blue, ch.alpha, pixel_elems, width,
                                  height))

---------------------------------------------------------------------------
(* The conversions to ImageBuffer<Luma<T>>, ImageBuffer<LumaA<T>> and      *)
(* ImageBuffer<Rgb<T>>                                                     *)

\* the message of the element test of the conversion to a pixel type
ErrElems(pixel) ==
    IF pixel = "Luma" THEN ErrOneElem
    ELSE IF pixel = "LumaA" THEN ErrTwoElems ELSE ErrThreeElems

\* the conversion with the luma channel unwrapped before the tests
try_into_unwrap_first(self, pixel) ==
    IF ~IsSome(self.luma) THEN Panicked
    ELSE IF self.pixel_elems # channel_count(pixel) THEN Err(ErrElems(pixel))
    ELSE IF Mul(self.width, self.height) = 0 THEN Err(ErrNonZeroDims)
    ELSE LET img == from_raw(pixel, self.T, self.width, self.height,
                             Unwrap(self.luma))
         IN  IF ~IsSome(img) THEN Err(ErrImageBuffer) ELSE Ok(Unwrap(img))

\* TryInto<ImageBuffer<P, Vec<T>>>, consuming and borrowing: the element
\* test, the dimension test, then from_raw on the unwrapped luma channel
try_into_image_buffer(self, pixel) ==
    IF self.pixel_elems # channel_count(pixel) THEN Err(ErrElems(pixel))
    ELSE IF Mul(self.width, self.height) = 0 THEN Err(ErrNonZeroDims)
    ELSE IF ~IsSome(self.luma) THEN Panicked
    ELSE LET img == from_raw(pixel, self.T, self.width, self.height,
                             Unwrap(self.luma))
         IN  IF ~IsSome(img) THEN Err(ErrImageBuffer) ELSE Ok(Unwrap(img))

---------------------------------------------------------------------------
(* The conversions to DynamicImage                                         *)

\* the pixel type of the variant Into<DynamicImage> makes for an element
\* count
PixelOf(pixel_elems) ==
    IF pixel_elems = 1 THEN "Luma" ELSE IF pixel_elems = 2 THEN "LumaA"
    ELSE IF pixel_elems = 3 THEN "Rgb" ELSE "Rgba"

\* Into<DynamicImage> for SerialImageBuffer<u8>, <u16> and <f32>, consuming
\* and borrowing: into_vec, then from_raw(..).unwrap() in the arm of the
\* element count; the u8 and u16 conversions have arms for 1 to 4, the f32
\* conversion for 3 and 4, and every other count panics
into_dynamic(self) ==
    LET width == self.width
        height == self.height
        pixel_elems == self.pixel_elems
        data == into_vec(self)
        arms == IF self.T = "f32" THEN {3, 4} ELSE {1, 2, 3, 4}
        img == from_raw(PixelOf(pixel_elems), self.T, width, height,
                        data.vec)
    IN  IF data.panic THEN Panicked
        ELSE IF pixel_elems \notin arms THEN Panicked
        ELSE IF ~IsSome(img) THEN Panicked
        ELSE Ok(Unwrap(img))

---------------------------------------------------------------------------
(* Inputs *)

SeqsUpTo(n) == UNION {[1..k -> Samples] : k \in 0..n}

\* flat vectors handed to from_vec
FlatVecs == SeqsUpTo(MaxFlatLen)

\* channel vectors handed to new with an image of n pixels: every length up
\* to MaxChanLen; a vector of n samples alternates from either start value,
\* and a vector of another length, which new rejects by its length alone,
\* from the first
Ramp(start, len) == [i \in 1..len |-> (start + i - 1) % 2]
ChanVecs(n) ==
    {Ramp(s, k) : s \in Samples, k \in {n} \cap (0..MaxChanLen)}
        \cup {Ramp(0, k) : k \in 0..MaxChanLen}
OptChanVecs(n) == {None} \cup {Some(v) : v \in ChanVecs(n)}
OptMetas == {None} \cup {Some(m) : m \in MetaRecords}

NoCall ==
    [op |-> "none", T |-> "", width |-> 0, height |-> 0, data |-> <<>>,
     meta |-> None, luma |-> None, red |-> None, green |-> None,
     blue |-> None, alpha |-> None, image |-> None]

\* the inputs of the buffers that are followed through their operations:
\* flat vectors of every length, channel vectors of the image's size, and
\* images of the crate of every dimension from 0 up, whose container holds
\* the samples the image needs or MaxSlack more
LifeFlatVecs == {Ramp(0, k) : k \in 0..MaxFlatLen}
SizedVecs(n) == {Ramp(0, k) : k \in {n} \cap (0..MaxChanLen)}
OptSizedVecs(n) == {None} \cup {Some(v) : v \in SizedVecs(n)}
HostImages(Variants) ==
    {ImageBuffer(x[1][1], x[1][2], x[2], x[3],
                 Ramp(0, x[2] * x[3] * channel_count(x[1][1]) + x[4])) :
        x \in {y \in Variants \X Dims \X Dims \X {0, MaxSlack} :
                  y[2] * y[3] * channel_count(y[1][1]) + y[4] <= MaxFlatLen}}
OptWrittenMetas == {None} \cup {Some(m) : m \in WrittenMetas}

\* the channel arguments of a call of new for an image of n pixels: those of
\* the image's size only, or those of every length
NewVecs(sized, n) == IF sized THEN SizedVecs(n) ELSE ChanVecs(n)
NewOpts(sized, n) == IF sized THEN OptSizedVecs(n) ELSE OptChanVecs(n)

\* every value of a usize
WordDims == 0..(UsizeModulus - 1)

\* no operation through &mut self was made yet
NoOp == [name |-> "none", meta |-> None, before |-> None]

---------------------------------------------------------------------------
(* The state machine: one constructor call, then the buffer's operations   *)

Init ==
    /\ pc = "start"
    /\ call = NoCall
    /\ res = Err("")
    /\ buf = None
    /\ out = None
    /\ nops = 0
    /\ seen = None
    /\ conv = None
    /\ last = NoOp
    /\ dimg = None

\* the state after a constructor returned r
Constructed(r) ==
    /\ res' = r
    /\ buf' = r.val
    /\ pc' = IF r.tag = "Ok" THEN "built" ELSE "failed"
    /\ out' = None
    /\ nops' = 0
    /\ seen' = None
    /\ conv' = None
    /\ last' = NoOp
    /\ dimg' = None

FromVecOf(Datas) ==
    /\ pc = "start"
    /\ \E T \in Kinds, width \in Dims, height \in Dims, data \in Datas :
          /\ call' = [NoCall EXCEPT !.op = "from_vec", !.T = T,
                         !.width = width, !.height = height, !.data = data]
          /\ Constructed(from_vec(T, width, height, data))

FromVec == FromVecOf(FlatVecs)

NewU8Of(sized) ==
    /\ pc = "start"
    /\ \E width \in Dims, height \in Dims, meta \in OptMetas :
       \E luma \in NewOpts(sized, width * height),
          red \in NewOpts(sized, width * height),
          green \in NewOpts(sized, width * height),
          blue \in NewOpts(sized, width * height),
          alpha \in NewOpts(sized, width * height) :
          /\ call' = [NoCall EXCEPT !.op = "new", !.T = "u8",
                         !.width = width, !.height = height, !.meta = meta,
                         !.luma = luma, !.red = red, !.green = green,
                         !.blue = blue, !.alpha = alpha]
          /\ Constructed(new_u8(meta, luma, red, green, blue, alpha,
                                width, height))

NewU8 == NewU8Of(FALSE)

NewU16Of(sized) ==
    /\ pc = "start"
    /\ \E width \in Dims, height \in Dims, meta \in OptMetas :
       \E luma \in NewOpts(sized, width * height),
          red \in NewOpts(sized, width * height),
          green \in NewOpts(sized, width * height),
          blue \in NewOpts(sized, width * height),
          alpha \in NewOpts(sized, width * height) :
          /\ call' = [NoCall EXCEPT !.op = "new", !.T = "u16",
                         !.width = width, !.height = height, !.meta = meta,
                         !.luma = luma, !.red = red, !.green = green,
                         !.blue = blue, !.alpha = alpha]
          /\ Constructed(new_u16(meta, luma, red, green, blue, alpha,
                                 width, height))

NewU16 == NewU16Of(FALSE)

NewF32Of(sized) ==
    /\ pc = "start"
    /\ \E width \in Dims, height \in Dims, meta \in OptMetas :
       \E red \in NewVecs(sized, width * height),
          green \in NewVecs(sized, width * height),
          blue \in NewVecs(sized, width * height),
          alpha \in NewOpts(sized, width * height) :
          /\ call' = [NoCall EXCEPT !.op = "new", !.T = "f32",
                         !.width = width, !.height = height, !.meta = meta,
                         !.red = Some(red), !.green = Some(green),
                         !.blue = Some(blue), !.alpha = alpha]
          /\ Constructed(new_f32(meta, red, green, blue, alpha,
                                 width, height))

NewF32 == NewF32Of(FALSE)

\* into_vec consumes the buffer, which ends the borrows of the accessors
IntoVec ==
    /\ pc = "built"
    /\ out' = Some(into_vec(Unwrap(buf)))
    /\ pc' = "consumed"
    /\ seen' = None
    /\ UNCHANGED <<call, res, buf, nops, conv, last, dimg>>

\* the conversions from the crate's images, consuming or borrowing
FromImageBuffer ==
    /\ pc = "start"
    /\ \E img \in HostImages(HostPixels \X Kinds) :
          /\ call' = [NoCall EXCEPT !.op = "from_image_buffer", !.T = img.T,
                         !.width = img.width, !.height = img.height,
                         !.image = Some(img)]
          /\ Constructed(from_image_buffer(img))

TryFromDynamic ==
    /\ pc = "start"
    /\ \E T \in Kinds, image \in HostImages(DynamicVariants) :
          /\ call' = [NoCall EXCEPT !.op = "try_from_dynamic", !.T = T,
                         !.width = image.width, !.height = image.height,
                         !.image = Some(image)]
          /\ Constructed(try_from_dynamic(T, image))

LifeFromVec == FromVecOf(LifeFlatVecs)
LifeNewU8 == NewU8Of(TRUE)
LifeNewU16 == NewU16Of(TRUE)
LifeNewF32 == NewF32Of(TRUE)

\* a round of calls of the accessors; they take &self
Accessors ==
    /\ pc = "built"
    /\ seen' = Some(Observed(Unwrap(buf)))
    /\ UNCHANGED <<pc, call, res, buf, out, nops, conv, last, dimg>>

\* the state after the operation name through &mut self, with the metadata
\* argument meta, left the buffer b
Mutated(name, meta, b) ==
    /\ buf' = Some(b)
    /\ nops' = nops + 1
    /\ seen' = None
    /\ last' = [name |-> name, meta |-> meta, before |-> buf]
    /\ UNCHANGED <<pc, call, res, out, conv, dimg>>

SetMetadata ==
    /\ pc = "built" /\ nops < MaxOps
    /\ \E meta \in OptWrittenMetas :
          Mutated("set_metadata", meta, set_metadata(Unwrap(buf), meta))

\* a write through the reference get_mut_metadata returns
GetMutMetadata ==
    /\ pc = "built" /\ nops < MaxOps
    /\ IsSome(get_mut_metadata(Unwrap(buf)))
    /\ \E m \in WrittenMetas :
          Mutated("get_mut_metadata", Some(m),
                  [Unwrap(buf) EXCEPT !.meta = Some(m)])

\* one call on the vector a mutable view returns
GetMutLuma ==
    /\ pc = "built" /\ nops < MaxOps
    /\ LET view == get_mut_luma(Unwrap(buf))
       IN  /\ IsSome(view)
           /\ \E v \in VecEdits(Unwrap(view)) :
                 Mutated("get_mut_luma", None,
                         [Unwrap(buf) EXCEPT !.luma = Some(v)])

GetMutRed ==
    /\ pc = "built" /\ nops < MaxOps
    /\ LET view == get_mut_red(Unwrap(buf))
       IN  /\ IsSome(view)
           /\ \E v \in VecEdits(Unwrap(view)) :
                 Mutated("get_mut_red", None,
                         [Unwrap(buf) EXCEPT !.red = Some(v)])

GetMutGreen ==
    /\ pc = "built" /\ nops < MaxOps
    /\ LET view == get_mut_green(Unwrap(buf))
       IN  /\ IsSome(view)
           /\ \E v \in VecEdits(Unwrap(view)) :
                 Mutated("get_mut_green", None,
                         [Unwrap(buf) EXCEPT !.green = Some(v)])

GetMutBlue ==
    /\ pc = "built" /\ nops < MaxOps
    /\ LET view == get_mut_blue(Unwrap(buf))
       IN  /\ IsSome(view)
           /\ \E v \in VecEdits(Unwrap(view)) :
                 Mutated("get_mut_blue", None,
                         [Unwrap(buf) EXCEPT !.blue = Some(v)])

GetMutAlpha ==
    /\ pc = "built" /\ nops < MaxOps
    /\ LET view == get_mut_alpha(Unwrap(buf))
       IN  /\ IsSome(view)
           /\ \E v \in VecEdits(Unwrap(view)) :
                 Mutated("get_mut_alpha", None,
                         [Unwrap(buf) EXCEPT !.alpha = Some(v)])

\* the consuming conversion to an image of the crate
TryIntoImageBuffer ==
    /\ pc = "built"
    /\ \E pixel \in HostPixels :
          conv' = Some([pixel |-> pixel, by_ref |-> FALSE,
                        res |-> try_into_image_buffer(Unwrap(buf), pixel)])
    /\ pc' = "converted"
    /\ seen' = None
    /\ UNCHANGED <<call, res, buf, out, nops, last, dimg>>

\* the borrowing conversion, which leaves the buffer in use unless it panics
TryIntoImageBufferRef ==
    /\ pc = "built" /\ nops < MaxOps
    /\ \E pixel \in HostPixels :
          LET r == try_into_image_buffer(Unwrap(buf), pixel)
          IN  /\ conv' = Some([pixel |-> pixel, by_ref |-> TRUE, res |-> r])
              /\ pc' = IF r.tag = "Panic" THEN "aborted" ELSE pc
    /\ nops' = nops + 1
    /\ UNCHANGED <<call, res, buf, out, seen, last, dimg>>

\* the consuming conversion to a DynamicImage
IntoDynamic ==
    /\ pc = "built"
    /\ LET r == into_dynamic(Unwrap(buf))
       IN  /\ dimg' = Some([by_ref |-> FALSE, res |-> r, source |-> buf,
                            kept |-> None, back |-> None])
           /\ pc' = IF r.tag = "Panic" THEN "aborted" ELSE "dynamic"
    /\ seen' = None
    /\ UNCHANGED <<call, res, buf, out, nops, conv, last>>

\* the borrowing conversion, which leaves the buffer in use unless it panics
IntoDynamicRef ==
    /\ pc = "built" /\ nops < MaxOps
    /\ UNCHANGED buf
    /\ LET r == into_dynamic(Unwrap(buf))
       IN  /\ dimg' = Some([by_ref |-> TRUE, res |-> r, source |-> buf,
                            kept |-> buf', back |-> None])
           /\ pc' = IF r.tag = "Panic" THEN "aborted" ELSE pc
    /\ nops' = nops + 1
    /\ UNCHANGED <<call, res, out, seen, conv, last>>

\* the image the conversion made, converted back to a buffer of the sample
\* type of its source
BackFromDynamic ==
    /\ pc \in {"built", "dynamic"}
    /\ IsSome(dimg)
    /\ Unwrap(dimg).res.tag = "Ok" /\ ~IsSome(Unwrap(dimg).back)
    /\ dimg' = Some([Unwrap(dimg) EXCEPT !.back =
                        Some(try_from_dynamic(Unwrap(Unwrap(dimg).source).T,
                                              Unwrap(Unwrap(dimg).res.val)))])
    /\ UNCHANGED <<pc, call, res, buf, out, nops, seen, conv, last>>

Next ==
    \/ FromVec
    \/ NewU8
    \/ NewU16
    \/ NewF32
    \/ IntoVec

Spec == Init /\ [][Next]_vars

\* a buffer from any of its sources, followed through its operations
NextLife ==
    \/ LifeFromVec
    \/ LifeNewU8
    \/ LifeNewU16
    \/ LifeNewF32
    \/ FromImageBuffer
    \/ TryFromDynamic
    \/ Accessors
    \/ SetMetadata
    \/ GetMutMetadata
    \/ GetMutLuma
    \/ GetMutRed
    \/ GetMutGreen
    \/ GetMutBlue
    \/ GetMutAlpha
    \/ IntoVec
    \/ TryIntoImageBuffer
    \/ TryIntoImageBufferRef
    \/ IntoDynamic
    \/ IntoDynamicRef
    \/ BackFromDynamic

SpecLife == Init /\ [][NextLife]_vars

\* the constructors called with dimensions over the whole usize, a flat
\* vector of any length up to MaxFlatLen, and channel vectors of as many
\* samples as the product the constructor computes
WordFromVec ==
    /\ pc = "start"
    /\ \E T \in Kinds, width \in WordDims, height \in WordDims,
          data \in LifeFlatVecs :
          /\ call' = [NoCall EXCEPT !.op = "from_vec", !.T = T,
                         !.width = width, !.height = height, !.data = data]
          /\ Constructed(from_vec(T, width, height, data))

WordNewU8 ==
    /\ pc = "start"
    /\ \E width \in WordDims, height \in WordDims :
       \E luma \in OptSizedVecs(Mul(width, height)),
          red \in OptSizedVecs(Mul(width, height)),
          green \in OptSizedVecs(Mul(width, height)),
          blue \in OptSizedVecs(Mul(width, height)),
          alpha \in OptSizedVecs(Mul(width, height)) :
          /\ call' = [NoCall EXCEPT !.op = "new", !.T = "u8",
                         !.width = width, !.height = height,
                         !.luma = luma, !.red = red, !.green = green,
                         !.blue = blue, !.alpha = alpha]
          /\ Constructed(new_u8(None, luma, red, green, blue, alpha,
                                width, height))

WordNewU16 ==
    /\ pc = "start"
    /\ \E width \in WordDims, height \in WordDims :
       \E luma \in OptSizedVecs(Mul(width, height)),
          red \in OptSizedVecs(Mul(width, height)),
          green \in OptSizedVecs(Mul(width, height)),
          blue \in OptSizedVecs(Mul(width, height)),
          alpha \in OptSizedVecs(Mul(width, height)) :
          /\ call' = [NoCall EXCEPT !.op = "new", !.T = "u16",
                         !.width = width, !.height = height,
                         !.luma = luma, !.red = red, !.green = green,
                         !.blue = blue, !.alpha = alpha]
          /\ Constructed(new_u16(None, luma, red, green, blue, alpha,
                                 width, height))

WordNewF32 ==
    /\ pc = "start"
    /\ \E width \in WordDims, height \in WordDims :
       \E red \in SizedVecs(Mul(width, height)),
          green \in SizedVecs(Mul(width, height)),
          blue \in SizedVecs(Mul(width, height)),
          alpha \in OptSizedVecs(Mul(width, height)) :
          /\ call' = [NoCall EXCEPT !.op = "new", !.T = "f32",
                         !.width = width, !.height = height,
                         !.red = Some(red), !.green = Some(green),
                         !.blue = Some(blue), !.alpha = alpha]
          /\ Constructed(new_f32(None, red, green, blue, alpha,
                                 width, height))

NextWord ==
    \/ WordFromVec
    \/ WordNewU8
    \/ WordNewU16
    \/ WordNewF32

SpecWord == Init /\ [][NextWord]_vars

---------------------------------------------------------------------------
(* The error kinds, as sets of the messages the constructors return *)

EmptyDimensions == {ErrZeroDim}
LengthNotDivisible == {ErrDataLen}
ElementCountOutOfRange == {ErrPixelElems}
ChannelCombinationInvalid == {ErrColors, ErrLumaColor}
ChannelLengthMismatch ==
    {ErrLumaLen, ErrRedLen, ErrGreenLen, ErrBlueLen, ErrAlphaLen}

---------------------------------------------------------------------------
(* Vocabulary of the properties *)

\* the constructor call failed with an error of the kind, and made no buffer
FailedWith(kind) == pc = "failed" /\ res.tag = "Err" /\ res.err \in kind /\ buf = None

\* the constructor call returned a buffer
Succeeded == res.tag = "Ok" /\ IsSome(res.val)

\* the buffer the constructor returned
Built == Unwrap(res.val)

\* into_vec was applied to the buffer as the constructor returned it
ConsumedAsBuilt == pc = "consumed" /\ Succeeded /\ buf = res.val

\* the pixel count of the call, as a mathematical product
CallPixels == call.width * call.height

FlatCall == call.op = "from_vec"
NewCall == call.op = "new"

\* the channels of a buffer, or of a call, in the order luma, red, green,
\* blue, alpha
ChannelsOf(b) == <<b.luma, b.red, b.green, b.blue, b.alpha>>
Presence(b) == [c \in 1..5 |-> IsSome(ChannelsOf(b)[c])]

LumaOnly == <<TRUE, FALSE, FALSE, FALSE, FALSE>>
LumaAlpha == <<TRUE, FALSE, FALSE, FALSE, TRUE>>
RgbOnly == <<FALSE, TRUE, TRUE, TRUE, FALSE>>
RgbAlpha == <<FALSE, TRUE, TRUE, TRUE, TRUE>>
LegalLayouts == {LumaOnly, LumaAlpha, RgbOnly, RgbAlpha}

\* the layout an element count stands for
LayoutOf(e) ==
    IF e = 1 THEN LumaOnly ELSE IF e = 2 THEN LumaAlpha
    ELSE IF e = 3 THEN RgbOnly ELSE RgbAlpha

\* the present channels of a buffer, in the order luma, red, green, blue, alpha
PresentChannels(b) ==
    SelectSeq(ChannelsOf(b), LAMBDA o : IsSome(o))

---------------------------------------------------------------------------
(* C1  Flat round trip: for width >= 1, height >= 1, e in 1..4 and every   *)
(* data of length width*height*e, from_vec(width, height, data) succeeds   *)
(* and into_vec of the buffer it returns gives back data.                  *)

C1_Case ==
    /\ FlatCall /\ call.width >= 1 /\ call.height >= 1
    /\ \E e \in 1..4 : Len(call.data) = CallPixels * e

C1_FlatRoundTrip ==
    C1_Case =>
        /\ Succeeded
        /\ ConsumedAsBuilt => out = Some(VecOk(call.data))

\* a 2-pixel, 4-element image whose samples are not all alike went through
\* from_vec and into_vec
C1_Witness ==
    /\ C1_Case /\ ConsumedAsBuilt
    /\ CallPixels = 2 /\ Len(call.data) = 8
    /\ call.data[1] # call.data[2] /\ call.data[3] # call.data[7]
    /\ out = Some(VecOk(call.data))

---------------------------------------------------------------------------
(* C2  Channel round trip: for every buffer a constructor returns, with    *)
(* n = width*height pixels and e elements, into_vec completes and          *)
(* from_vec_unsafe(n, into_vec(B), e) gives back exactly B's channels.     *)

RoundTrips(b, o) ==
    /\ ~o.panic
    /\ LET c == from_vec_unsafe(b.width * b.height, o.vec, b.pixel_elems)
       IN  /\ ~c.panic
           /\ ChannelsOf(c) = ChannelsOf(b)

C2_ChannelRoundTrip ==
    ConsumedAsBuilt => RoundTrips(Built, Unwrap(out))

\* the same law for the buffers from_vec returns and the buffers of a legal
\* layout that new returns
C2_LegalRoundTrip ==
    (ConsumedAsBuilt /\ Presence(Built) \in LegalLayouts)
        => RoundTrips(Built, Unwrap(out))

---------------------------------------------------------------------------
(* C3  Flat inference: from_vec with width*height > 0 and a data length of *)
(* e*width*height, e in 1..4, succeeds with pixel_elems = e, exactly the   *)
(* channels of the layout of e present, each of length width*height.       *)

C3_Case(e) ==
    FlatCall /\ CallPixels > 0 /\ Len(call.data) = e * CallPixels

C3_FlatInference ==
    \A e \in 1..4 :
        C3_Case(e) =>
            /\ Succeeded
            /\ pc \in {"built", "consumed"}
            /\ Built.pixel_elems = e
            /\ Presence(Built) = LayoutOf(e)
            /\ \A c \in 1..5 :
                  Presence(Built)[c] =>
                      Len(Unwrap(ChannelsOf(Built)[c])) = CallPixels

\* from_vec inferred luminosity and alpha from 2*2*2 samples
C3_Witness ==
    /\ C3_Case(2) /\ call.width = 2 /\ call.height = 2
    /\ pc = "built" /\ Unwrap(buf).pixel_elems = 2
    /\ Presence(Unwrap(buf)) = LumaAlpha

---------------------------------------------------------------------------
(* C4  Interleave order: for a buffer of a legal layout with e elements,   *)
(* into_vec returns a vector in which positions e*i .. e*i+e-1 hold pixel  *)
(* i's samples in the order luma or red, green, blue, then alpha; a 1x1    *)
(* RGBA buffer of 10, 20, 30, 40 gives <<10, 20, 30, 40>>.                 *)

C4_Case ==
    /\ ConsumedAsBuilt
    /\ Presence(Built) \in LegalLayouts
    /\ Presence(Built) = LayoutOf(Built.pixel_elems)

Rgba1x1 ==
    SerialImageBuffer("u8", None, None, Some(<<10>>), Some(<<20>>),
                      Some(<<30>>), Some(<<40>>), 4, 1, 1)

C4_InterleaveOrder ==
    /\ C4_Case =>
          LET b == Built
              e == b.pixel_elems
              o == Unwrap(out)
              ch == PresentChannels(b)
          IN  /\ ~o.panic
              /\ Len(o.vec) >= e * b.width * b.height
              /\ \A i \in 0..(b.width * b.height - 1) :
                    \A j \in 0..(e - 1) :
                        o.vec[e * i + j + 1] = Unwrap(ch[j + 1])[i + 1]
    /\ into_vec(Rgba1x1) = VecOk(<<10, 20, 30, 40>>)

\* into_vec interleaved a 2-pixel RGBA buffer whose channels differ
C4_Witness ==
    /\ C4_Case /\ Built.pixel_elems = 4
    /\ Built.width * Built.height = 2
    /\ Built.red # Built.green /\ Built.blue # Built.alpha
    /\ Unwrap(Built.red)[1] # Unwrap(Built.red)[2]
    /\ ~Unwrap(out).panic

---------------------------------------------------------------------------
(* C5  Deinterleave positions: for a flat vector from_vec accepts, with n  *)
(* pixels and e elements, for every i < n: e=1 luma[i] = flat[i]; e=2      *)
(* luma[i] = flat[2i], alpha[i] = flat[2i+1]; e=3 red, green, blue[i] =    *)
(* flat[3i], flat[3i+1], flat[3i+2]; e=4 red, green, blue, alpha[i] =      *)
(* flat[4i], flat[4i+1], flat[4i+2], flat[4i+3].                           *)

\* flat[k] and channel[i], both counted from 0
Flat(k) == call.data[k + 1]
At(o, i) == Unwrap(o)[i + 1]

C5_Case == FlatCall /\ Succeeded

C5_DeinterleavePositions ==
    C5_Case =>
        LET b == Built
            e == b.pixel_elems
        IN  \A i \in 0..(CallPixels - 1) :
              /\ e = 1 => At(b.luma, i) = Flat(i)
              /\ e = 2 => /\ At(b.luma, i) = Flat(2 * i)
                          /\ At(b.alpha, i) = Flat(2 * i + 1)
              /\ e = 3 => /\ At(b.red, i) = Flat(3 * i)
                          /\ At(b.green, i) = Flat(3 * i + 1)
                          /\ At(b.blue, i) = Flat(3 * i + 2)
              /\ e = 4 => /\ At(b.red, i) = Flat(4 * i)
                          /\ At(b.green, i) = Flat(4 * i + 1)
                          /\ At(b.blue, i) = Flat(4 * i + 2)
                          /\ At(b.alpha, i) = Flat(4 * i + 3)

\* from_vec split 2 pixels of 3 elements whose samples are not all alike
C5_Witness ==
    /\ C5_Case /\ pc = "built" /\ CallPixels = 2
    /\ Unwrap(buf).pixel_elems = 3
    /\ call.data[1] # call.data[4] /\ call.data[2] # call.data[3]

---------------------------------------------------------------------------
(* C6  Zero-dimension rejection: from_vec and new for u8, u16 and f32 fail *)
(* with EmptyDimensions whenever width = 0 or height = 0, whatever the     *)
(* channels, their lengths and the flat length; no buffer is produced.     *)

C6_Case ==
    (FlatCall \/ NewCall) /\ (call.width = 0 \/ call.height = 0)

C6_ZeroDimension == C6_Case => FailedWith(EmptyDimensions)

\* new for u8 was called with height 0, luma together with a single color
\* channel, and channel lengths that differ
C6_Witness ==
    /\ C6_Case /\ NewCall /\ call.T = "u8"
    /\ call.width = 2 /\ call.height = 0
    /\ IsSome(call.luma) /\ IsSome(call.red) /\ ~IsSome(call.green)
    /\ Len(Unwrap(call.luma)) # Len(Unwrap(call.red))
    /\ FailedWith(EmptyDimensions)

---------------------------------------------------------------------------
(* C7  Flat-length errors: for width*height > 0, from_vec fails with       *)
(* LengthNotDivisible whenever the data length is no exact multiple of     *)
(* width*height, fails with ElementCountOutOfRange exactly when the length *)
(* is k*width*height with k = 0 or k > 4, and succeeds exactly when k is   *)
(* in 1..4.                                                                *)

C7_Case == FlatCall /\ CallPixels > 0

C7_FlatLengthErrors ==
    C7_Case =>
        LET len == Len(call.data)
            k == len \div CallPixels
            multiple == len % CallPixels = 0
        IN  /\ ~multiple => FailedWith(LengthNotDivisible)
            /\ FailedWith(ElementCountOutOfRange)
                   <=> (multiple /\ (k = 0 \/ k > 4))
            /\ Succeeded <=> (multiple /\ k \in 1..4)
            /\ Succeeded \/ FailedWith(LengthNotDivisible)
                   \/ FailedWith(ElementCountOutOfRange)

\* from_vec refused 9 samples for 2 pixels: more than 4 per pixel, and no
\* multiple
C7_Witness ==
    /\ C7_Case /\ CallPixels = 2 /\ Len(call.data) = 9
    /\ FailedWith(LengthNotDivisible)

---------------------------------------------------------------------------
(* C8  Partial RGB rejection: for width*height > 0, new for u8 and u16     *)
(* fails with ChannelCombinationInvalid whenever exactly one or two of     *)
(* red, green, blue are present, whatever luma, alpha and the lengths.     *)

Colors(c) == B2N(IsSome(c.red)) + B2N(IsSome(c.green)) + B2N(IsSome(c.blue))

C8_Case ==
    /\ NewCall /\ call.T \in {"u8", "u16"} /\ CallPixels > 0
    /\ Colors(call) \in {1, 2}

C8_PartialRgb == C8_Case => FailedWith(ChannelCombinationInvalid)

\* new for u16 refused red and green without blue, red being of a wrong
\* length
C8_Witness ==
    /\ C8_Case /\ call.T = "u16"
    /\ IsSome(call.red) /\ IsSome(call.green) /\ ~IsSome(call.blue)
    /\ ~IsSome(call.luma)
    /\ Len(Unwrap(call.red)) # CallPixels
    /\ FailedWith(ChannelCombinationInvalid)

---------------------------------------------------------------------------
(* C9  Luma/color exclusivity: for width*height > 0, new fails with        *)
(* ChannelCombinationInvalid whenever luma is present together with any of *)
(* red, green, blue, even with all three present and every length right.   *)

C9_Case ==
    /\ NewCall /\ call.T \in {"u8", "u16"} /\ CallPixels > 0
    /\ IsSome(call.luma) /\ Colors(call) > 0

C9_LumaColorExclusive == C9_Case => FailedWith(ChannelCombinationInvalid)

\* new for u8 refused luma with red, green and blue, all of the right length
C9_Witness ==
    /\ C9_Case /\ call.T = "u8" /\ Colors(call) = 3 /\ CallPixels = 2
    /\ \A c \in 1..4 : Len(Unwrap(ChannelsOf(call)[c])) = CallPixels
    /\ FailedWith(ChannelCombinationInvalid)

---------------------------------------------------------------------------
(* C10  Length mismatch: for width*height > 0 and a legal channel          *)
(* combination, new fails with ChannelLengthMismatch if a present channel  *)
(* has a length other than width*height, and succeeds only if every        *)
(* present channel has exactly that length.                                *)

C10_Case ==
    NewCall /\ CallPixels > 0 /\ Presence(call) \in LegalLayouts

LengthsMatch(c) ==
    \A i \in 1..5 :
        Presence(c)[i] => Len(Unwrap(ChannelsOf(c)[i])) = CallPixels

C10_LengthMismatch ==
    C10_Case =>
        /\ ~LengthsMatch(call) => FailedWith(ChannelLengthMismatch)
        /\ Succeeded => LengthsMatch(call)
        /\ LengthsMatch(call) => Succeeded

\* new for f32 refused red, green and blue of 2 samples each with an alpha
\* of fewer
C10_Witness ==
    /\ C10_Case /\ call.T = "f32" /\ CallPixels = 2
    /\ Len(Unwrap(call.red)) = 2 /\ Len(Unwrap(call.green)) = 2
    /\ Len(Unwrap(call.blue)) = 2
    /\ IsSome(call.alpha) /\ Len(Unwrap(call.alpha)) < 2
    /\ FailedWith(ChannelLengthMismatch)

---------------------------------------------------------------------------
(* C11  Legal-layout invariant: every buffer from_vec or new returns has   *)
(* one of the four legal layouts: luma, luma+alpha, red+green+blue, or     *)
(* red+green+blue+alpha; a call with no channel at all, or with alpha      *)
(* alone, is rejected.                                                     *)

C11_LegalLayout ==
    ((FlatCall \/ NewCall) /\ Succeeded) => Presence(Built) \in LegalLayouts

---------------------------------------------------------------------------
(* C12  Element-count range: for every buffer from_vec or new returns,     *)
(* pixel_elems is one of 1, 2, 3, 4.                                       *)

C12_ElementCountRange ==
    ((FlatCall \/ NewCall) /\ Succeeded) => Built.pixel_elems \in 1..4

---------------------------------------------------------------------------
(* C16  No fatal path in into_vec: for every buffer from_vec or new        *)
(* returns, into_vec completes and returns a vector; neither the panic on  *)
(* the element count nor the unwrap of an absent channel is reached.       *)

C16_NoFatalPath ==
    ((FlatCall \/ NewCall) /\ ConsumedAsBuilt) => ~Unwrap(out).panic

---------------------------------------------------------------------------
(* C19  Float layout: every buffer new for f32 returns has red, green and  *)
(* blue present, luma absent, and pixel_elems = 4 with alpha and 3         *)
(* without; no luma or luma+alpha float buffer comes out of new.           *)

C19_Case == NewCall /\ call.T = "f32" /\ Succeeded

C19_FloatLayout ==
    C19_Case =>
        /\ Built.T = "f32"
        /\ ~IsSome(Built.luma)
        /\ IsSome(Built.red) /\ IsSome(Built.green) /\ IsSome(Built.blue)
        /\ Built.pixel_elems = IF IsSome(Built.alpha) THEN 4 ELSE 3
        /\ Presence(Built) \in {RgbOnly, RgbAlpha}

\* new for f32 returned a 2-pixel buffer with an alpha channel
C19_Witness ==
    /\ C19_Case /\ pc = "built" /\ CallPixels = 2
    /\ IsSome(Unwrap(buf).alpha) /\ Unwrap(buf).pixel_elems = 4

---------------------------------------------------------------------------
(* Vocabulary of the properties of a buffer followed through its           *)
(* operations                                                              *)

\* the buffer in its current state, once a constructor returned one
HasBuffer == IsSome(buf)
Buffer == Unwrap(buf)

\* the number of channels of a buffer that are Some
PresentCount(b) == Cardinality({c \in 1..5 : Presence(b)[c]})

\* width, height, element count and channel presence of a buffer
Shape(b) ==
    [width |-> b.width, height |-> b.height, pixel_elems |-> b.pixel_elems,
     presence |-> Presence(b)]

\* the errors of a conversion that cannot map the layout to an image
UnsupportedLayout == {ErrOneElem, ErrTwoElems, ErrThreeElems, ErrImageBuffer}

---------------------------------------------------------------------------
(* C13  Element-count consistency: for every buffer a constructor or a     *)
(* conversion from an image returned, and after every sequence of          *)
(* accessor, mutable-view and metadata operations on it, pixel_elems()     *)
(* equals the number of channels among luma, red, green, blue and alpha    *)
(* that are Some; an accessor round read that same number.                 *)

C13_ElementCountConsistent ==
    HasBuffer =>
        /\ pixel_elems_of(Buffer) = PresentCount(Buffer)
        /\ IsSome(seen) => Unwrap(seen).pixel_elems = PresentCount(Buffer)

\* a four-element buffer converted from a dynamic image, written through a
\* mutable view and then read by the accessors
C13_Witness ==
    /\ pc = "built" /\ call.op = "try_from_dynamic"
    /\ nops = 1 /\ buf # res.val /\ IsSome(seen)
    /\ pixel_elems_of(Buffer) = 4 /\ PresentCount(Buffer) = 4

---------------------------------------------------------------------------
(* C14  Channel-length invariant: in every state of a buffer, after its    *)
(* construction and after every sequence of operations through the         *)
(* mutable channel views, every channel that is Some has exactly           *)
(* width * height samples.                                                 *)

C14_ChannelLengths ==
    HasBuffer =>
        \A c \in 1..5 :
            Presence(Buffer)[c] =>
                Len(Unwrap(ChannelsOf(Buffer)[c])) = Buffer.width * Buffer.height

---------------------------------------------------------------------------
(* C15  Positive dimensions: every buffer has width > 0 and height > 0,    *)
(* whether from_vec, new, the conversion from an ImageBuffer of the image  *)
(* crate or the conversion from a DynamicImage made it, an image of        *)
(* width 0 or height 0 included.                                           *)

C15_PositiveDimensions ==
    HasBuffer => Buffer.width > 0 /\ Buffer.height > 0

---------------------------------------------------------------------------
(* C17  Flat length: for every buffer, at any point after its              *)
(* construction, writes through the mutable channel views included,        *)
(* into_vec returns a vector of exactly width * height * pixel_elems       *)
(* samples, and the empty vector when width * height = 0.                  *)

C17_FlatLength ==
    (pc = "consumed" /\ HasBuffer) =>
        /\ ~Unwrap(out).panic
        /\ Len(Unwrap(out).vec)
              = Buffer.width * Buffer.height * Buffer.pixel_elems
        /\ Buffer.width * Buffer.height = 0 => Unwrap(out).vec = <<>>

---------------------------------------------------------------------------
(* C18  Shape immutability: after a buffer is constructed, no sequence of  *)
(* accessor calls, mutable-view accesses and metadata get, get-mutable and *)
(* replace operations changes its width, height, element count or which    *)
(* of its five channels are present; the accessors keep reading the shape  *)
(* the constructor made.                                                   *)

C18_ShapeImmutable ==
    (HasBuffer /\ Succeeded) =>
        /\ Buffer.T = Built.T
        /\ Shape(Buffer) = Shape(Built)
        /\ IsSome(seen) =>
              /\ Unwrap(seen).width = Built.width
              /\ Unwrap(seen).height = Built.height
              /\ Unwrap(seen).pixel_elems = Built.pixel_elems
              /\ <<IsSome(Unwrap(seen).get_luma), IsSome(Unwrap(seen).get_red),
                   IsSome(Unwrap(seen).get_green),
                   IsSome(Unwrap(seen).get_blue),
                   IsSome(Unwrap(seen).get_alpha)>> = Presence(Built)

\* a buffer whose alpha channel is None and whose luma channel was written
\* through its mutable view, read by the accessors afterwards
C18_Witness ==
    /\ pc = "built" /\ nops = 1 /\ IsSome(seen)
    /\ ~IsSome(Built.alpha) /\ IsSome(Built.luma)
    /\ Buffer.luma # Built.luma
    /\ Unwrap(seen).get_luma = Buffer.luma

---------------------------------------------------------------------------
(* C20  Adapter element test: the conversion of a buffer to an             *)
(* ImageBuffer of one pixel type (Luma with 1 element, LumaA with 2, Rgb   *)
(* with 3), consuming or borrowing, returns the UnsupportedLayout error    *)
(* of that pixel type whenever the buffer's element count differs from     *)
(* the pixel type's, and it tests this before it reads a channel: it       *)
(* returns the error, and does not panic, for a buffer without luma.       *)

C20_Case ==
    /\ IsSome(conv) /\ HasBuffer
    /\ pixel_elems_of(Buffer) # channel_count(Unwrap(conv).pixel)

C20_AdapterElementTest ==
    C20_Case =>
        /\ Unwrap(conv).res = Err(ErrElems(Unwrap(conv).pixel))
        /\ Unwrap(conv).res.err \in UnsupportedLayout
        /\ Unwrap(conv).res.tag # "Panic"

\* a three-element buffer, whose luma channel is None, converted by the
\* borrowing conversion to ImageBuffer<Luma<T>>
C20_Witness ==
    /\ C20_Case /\ Unwrap(conv).by_ref /\ Unwrap(conv).pixel = "Luma"
    /\ pixel_elems_of(Buffer) = 3 /\ ~IsSome(Buffer.luma)
    /\ Unwrap(conv).res.tag = "Err"

---------------------------------------------------------------------------
(* C21  Metadata slot independence: after set_metadata (with a record or   *)
(* with none) and after a write through get_mut_metadata, the buffer's     *)
(* metadata, and what get_metadata reads next, is exactly the value last   *)
(* set, and width, height, element count, channel presence and every       *)
(* channel sample are as before the operation; an operation through a      *)
(* mutable channel view leaves the metadata as it was. new stores exactly  *)
(* the metadata it is given and from_vec returns a buffer with none.       *)

MetadataOps == {"set_metadata", "get_mut_metadata"}
ChannelOps ==
    {"get_mut_luma", "get_mut_red", "get_mut_green", "get_mut_blue",
     "get_mut_alpha"}

C21_MetadataIndependent ==
    /\ (HasBuffer /\ last.name \in MetadataOps) =>
          /\ Buffer.meta = last.meta
          /\ IsSome(seen) => Unwrap(seen).get_metadata = last.meta
          /\ Shape(Buffer) = Shape(Unwrap(last.before))
          /\ ChannelsOf(Buffer) = ChannelsOf(Unwrap(last.before))
    /\ (HasBuffer /\ last.name \in ChannelOps) =>
          /\ Buffer.meta = Unwrap(last.before).meta
          /\ IsSome(seen) =>
                Unwrap(seen).get_metadata = Unwrap(last.before).meta
    /\ (NewCall /\ Succeeded) => Built.meta = call.meta
    /\ (FlatCall /\ Succeeded) => Built.meta = None

\* a buffer built by new with a record, whose record set_metadata replaced
\* with none, read by the accessors afterwards
C21_Witness ==
    /\ pc = "built" /\ NewCall /\ IsSome(call.meta)
    /\ last.name = "set_metadata" /\ last.meta = None
    /\ IsSome(Unwrap(last.before).meta)
    /\ IsSome(seen) /\ Unwrap(seen).get_metadata = None
    /\ IsSome(Buffer.red)

---------------------------------------------------------------------------
(* C22  Adapters reshape through the flat form: for every valid buffer     *)
(* with element count 1, 2 or 3 and nonzero dimensions, the conversion to  *)
(* the ImageBuffer of the matching pixel type (Luma, LumaA, Rgb) succeeds, *)
(* and the image has the buffer's width and height and into_vec(buffer)    *)
(* as its raw samples, whichever channels hold the data.                   *)

\* a buffer that satisfies the invariants of the data model
ValidBuffer(b) ==
    /\ b.width > 0 /\ b.height > 0
    /\ Presence(b) \in LegalLayouts
    /\ b.pixel_elems = PresentCount(b)
    /\ \A c \in 1..5 :
          Presence(b)[c] => Len(Unwrap(ChannelsOf(b)[c])) = b.width * b.height

C22_Case ==
    /\ IsSome(conv) /\ HasBuffer /\ ValidBuffer(Buffer)
    /\ pixel_elems_of(Buffer) = channel_count(Unwrap(conv).pixel)

C22_AdaptersThroughFlat ==
    C22_Case =>
        /\ Unwrap(conv).res.tag = "Ok"
        /\ Unwrap(Unwrap(conv).res.val).width = Buffer.width
        /\ Unwrap(Unwrap(conv).res.val).height = Buffer.height
        /\ Unwrap(Unwrap(conv).res.val).raw = into_vec(Buffer).vec

---------------------------------------------------------------------------
(* C23  Dynamic-image conversion is total on constructed buffers: for      *)
(* every sample type and every buffer from_vec or new returned, the        *)
(* conversion to DynamicImage completes without a panic and yields the     *)
(* variant of the buffer's sample type whose channel count is the          *)
(* buffer's element count, f32 buffers of 1 or 2 elements included.        *)

\* a buffer, as from_vec or new returned it, was converted to a DynamicImage
C23_Case ==
    /\ (FlatCall \/ NewCall) /\ Succeeded
    /\ IsSome(dimg) /\ Unwrap(dimg).source = res.val

C23_DynamicTotal ==
    C23_Case =>
        /\ Unwrap(dimg).res.tag = "Ok"
        /\ Unwrap(Unwrap(dimg).res.val).T = Built.T
        /\ channel_count(Unwrap(Unwrap(dimg).res.val).pixel)
              = Built.pixel_elems

---------------------------------------------------------------------------
(* C24  Dynamic-image round trip: for every buffer B with one of the four  *)
(* legal layouts (u8, u16) or with the Rgb or RgbAlpha layout (f32), and   *)
(* no metadata, the conversion of B to a DynamicImage succeeds, and the    *)
(* conversion of that image back to a buffer of B's sample type succeeds   *)
(* and returns a buffer equal to B; the borrowing conversion does the same *)
(* and leaves B as it was.                                                 *)

\* the buffer the conversion to DynamicImage was applied to
Source == Unwrap(Unwrap(dimg).source)

C24_Case ==
    /\ IsSome(dimg)
    /\ Presence(Source) \in
          (IF Source.T = "f32" THEN {RgbOnly, RgbAlpha} ELSE LegalLayouts)
    /\ ~IsSome(Source.meta)

C24_DynamicRoundTrip ==
    C24_Case =>
        /\ Unwrap(dimg).res.tag = "Ok"
        /\ Unwrap(dimg).by_ref => Unwrap(dimg).kept = Unwrap(dimg).source
        /\ IsSome(Unwrap(dimg).back) =>
              /\ Unwrap(Unwrap(dimg).back).tag = "Ok"
              /\ Unwrap(Unwrap(dimg).back).val = Unwrap(dimg).source

\* the round trip of the buffers that satisfy the invariants of the data
\* model
ValidRoundTrip ==
    (C24_Case /\ ValidBuffer(Source)) =>
        /\ Unwrap(dimg).res.tag = "Ok"
        /\ Unwrap(dimg).by_ref => Unwrap(dimg).kept = Unwrap(dimg).source
        /\ IsSome(Unwrap(dimg).back) =>
              /\ Unwrap(Unwrap(dimg).back).tag = "Ok"
              /\ Unwrap(Unwrap(dimg).back).val = Unwrap(dimg).source

---------------------------------------------------------------------------
(* C25  EmptyDimensions under machine-word arithmetic: with width and      *)
(* height over every value of the word and the product width * height      *)
(* computed modulo 2^w as the constructors compute it, from_vec and new    *)
(* fail with EmptyDimensions exactly when width = 0 or height = 0; two     *)
(* nonzero dimensions whose product wraps are neither rejected as empty    *)
(* nor accepted with a pixel count other than the true width * height.     *)

C25_EmptyDimensionsExact ==
    (FlatCall \/ NewCall) =>
        /\ FailedWith(EmptyDimensions) <=> (call.width = 0 \/ call.height = 0)
        /\ Succeeded =>
              \A c \in 1..5 :
                  Presence(Built)[c] =>
                      Len(Unwrap(ChannelsOf(Built)[c]))
                          = call.width * call.height

====
